---- MODULE Spec2Model ----
(***************************************************************************)
(* Model of agent-git/main.py: the MCP tool handlers that drive a git      *)
(* repository (init, add, reset, log, create_branch, checkout) and the     *)
(* attributed commit (git_commit -> git_commit_direct), whose commit and   *)
(* rev-parse steps are two separate subprocess runs.                       *)
(*                                                                         *)
(* Strings are modelled structurally: a commit message is a sequence of    *)
(* characters, a formatted result is a record holding the literal prefix   *)
(* of the f-string and the values interpolated into it.                    *)
(***************************************************************************)
EXTENDS Integers, Sequences, FiniteSets, TLC

\* ------------------------------------------------------------------ bounds

MaxCommits == 2      \* commits the repository may hold
MaxLogCount == 2     \* largest max_count passed to git_log

\* the callers of the server; each has at most one request in flight
Procs == {"c1", "c2"}
OsEnviron == "os.environ"

\* ------------------------------------------------------------------ inputs

RepoPath == "/repo"
Paths == {"", RepoPath}

Tag == <<"[", "a", "g", "e", "n", "t", "]">>
Chop(s) == SubSeq(s, 1, Len(s) - 1)
Messages ==
  { Tag \o <<" ", "x">>,      \* "[agent] x"
    <<"x">>,                  \* "x"
    Chop(Tag),                \* "[agent"
    <<" ">> \o Tag }          \* " [agent]"

Requests ==
  { [agent |-> "Claude", user |-> "Andor", email |-> "andor@andor.us"],
    [agent |-> "Codex", user |-> "Eve", email |-> "eve@example.org"] }

BranchNames == {"master", "dev"}
NoBase == "None"
Files == {"a.txt"}
AddInputs == {<<>>, <<"a.txt">>, <<"missing.txt">>}

IdentVars == {"GIT_AUTHOR_NAME", "GIT_AUTHOR_EMAIL",
              "GIT_COMMITTER_NAME", "GIT_COMMITTER_EMAIL"}
Unset == <<"unset">>
AmbientEnvs ==
  { [v \in IdentVars |-> Unset],
    [v \in IdentVars |->
       IF v \in {"GIT_AUTHOR_NAME", "GIT_COMMITTER_NAME"}
       THEN <<"operator">> ELSE <<"operator@host">>] }

\* ------------------------------------------------------------------ state

VARIABLES
  fs,        \* what RepoPath is on disk: "absent", "plain" (no .git) or "repo"
  commits,   \* the object store: commit i is commits[i]
  heads,     \* refs/heads: branch name -> commit id
  active,    \* the branch HEAD points at (possibly unborn)
  index,     \* staged paths that differ from HEAD
  environ,   \* Python dict objects: environ[OsEnviron] is os.environ,
             \* environ[p] the `env` dict of caller p's git_commit invocation
  call       \* each caller's request: position, arguments, locals, result

vars == <<fs, commits, heads, active, index, environ, call>>

repo == <<commits, heads, active, index>>

\* ------------------------------------------------------------------ helpers

Returned(prefix, detail) == [kind |-> "returned", prefix |-> prefix, detail |-> detail]

NoEnv == [v \in {} |-> Unset]
NoProc == [returncode |-> -1, stdout |-> <<>>, stderr |-> <<>>]
NoResult == [kind |-> "none", prefix |-> "", detail |-> <<>>]
NoRequest == [agent |-> "", user |-> "", email |-> ""]

\* a caller with no request in flight
Idle ==
  [pc |-> "idle", op |-> "", repo_path |-> "", message |-> <<>>, req |-> NoRequest,
   agent_full_name |-> <<>>, argv |-> <<>>, proc |-> NoProc,
   attempts |-> 0, created |-> 0, result |-> NoResult]

Range(s) == {s[i] : i \in 1..Len(s)}

StartsWith(s, prefix) ==
  /\ Len(s) >= Len(prefix)
  /\ SubSeq(s, 1, Len(prefix)) = prefix

\* validate_repo: the exception it raises, or "ok"
validate_repo(repo_path) ==
  IF repo_path = "" THEN "Repository path cannot be empty"
  ELSE IF fs = "absent" THEN "Repository path does not exist"
  ELSE IF fs = "plain" THEN "InvalidGitRepositoryError"
  ELSE "ok"

HasHead == active \in DOMAIN heads
HeadCommit == IF HasHead THEN heads[active] ELSE 0

\* Commit.hexsha, and the text `git rev-parse` prints for it
hexsha(id) == <<ToString(id)>>

\* str.strip(): leading and trailing whitespace removed
RECURSIVE strip(_)
strip(s) ==
  IF s = <<>> THEN s
  ELSE IF Head(s) \in {" ", "\n"} THEN strip(Tail(s))
  ELSE IF s[Len(s)] \in {" ", "\n"} THEN strip(Chop(s))
  ELSE s

\* ------------------------------------------------------------------ Init

Init ==
  /\ fs \in {"absent", "plain"}
  /\ commits = <<>>
  /\ heads = [b \in {} |-> 0]
  /\ active = "master"
  /\ index = {}
  /\ \E amb \in AmbientEnvs :
       environ = [i \in {OsEnviron} \cup Procs |-> IF i = OsEnviron THEN amb ELSE NoEnv]
  /\ call = [p \in Procs |-> Idle]

\* caller p's tool call returns `result`
Answer(p, op, result) ==
  /\ call[p].pc = "idle"
  /\ call' = [call EXCEPT ![p] = [Idle EXCEPT !.pc = "done", !.op = op, !.result = result]]

\* ... and touches nothing else
Reply(p, op, result) ==
  /\ Answer(p, op, result)
  /\ UNCHANGED <<fs, commits, heads, active, index, environ>>

\* ------------------------------------------------------------------ git_init

git_init(p, repo_path) ==
  IF fs = "repo"
  THEN Reply(p, "git_init", Returned("Repository already initialized at", <<repo_path>>))
  ELSE /\ fs' = "repo"
       /\ commits' = <<>>
       /\ heads' = [b \in {} |-> 0]
       /\ active' = "master"
       /\ index' = {}
       /\ Answer(p, "git_init", Returned("Initialized empty Git repository in",
                                      <<repo_path, "/.git">>))
       /\ UNCHANGED <<environ>>

\* ------------------------------------------------------------------ git_add

git_add(p, repo_path, files) ==
  LET v == validate_repo(repo_path) IN
  IF v # "ok"
  THEN Reply(p, "git_add", Returned("Error staging files:", <<v>>))
  ELSE IF ~(Range(files) \subseteq Files)
  THEN Reply(p, "git_add", Returned("Error staging files:", <<"FileNotFoundError">>))
  ELSE /\ index' = index \cup Range(files)
       /\ Answer(p, "git_add", Returned("Files staged successfully", <<>>))
       /\ UNCHANGED <<fs, commits, heads, active, environ>>

\* ------------------------------------------------------------------ git_reset

git_reset(p, repo_path) ==
  LET v == validate_repo(repo_path) IN
  IF v # "ok"
  THEN Reply(p, "git_reset", Returned("Error resetting staged changes:", <<v>>))
  ELSE IF ~HasHead
  THEN Reply(p, "git_reset", Returned("Error resetting staged changes:", <<"GitCommandError">>))
  ELSE /\ index' = {}
       /\ Answer(p, "git_reset", Returned("All staged changes reset", <<>>))
       /\ UNCHANGED <<fs, commits, heads, active, environ>>

\* ------------------------------------------------------------------ git_log

\* Repo.iter_commits(max_count=n) from commit id: the first-parent chain
RECURSIVE iter_commits(_, _)
iter_commits(id, n) ==
  IF id = 0 \/ n = 0 THEN <<>>
  ELSE <<id>> \o iter_commits(commits[id].parent, n - 1)

\* the formatted summary of commit id (the date line is left out)
Summary(id) ==
  [Commit |-> hexsha(id), Author |-> commits[id].author.name,
   Message |-> commits[id].message]

LogError(text) == <<[Error |-> "Error retrieving commit log:", detail |-> text]>>

\* what git_log returns: a list of strings
LogEntries(repo_path, max_count) ==
  LET v == validate_repo(repo_path) IN
  IF v # "ok" THEN LogError(v)
  \* iter_commits resolves head.commit first, which raises on an unborn branch
  ELSE IF ~HasHead THEN LogError("ValueError: Reference does not exist")
  ELSE LET ids == iter_commits(HeadCommit, max_count) IN
       [i \in 1..Len(ids) |-> Summary(ids[i])]

git_log(p, repo_path, max_count) ==
  Reply(p, "git_log", [kind |-> "returned", prefix |-> "", detail |-> LogEntries(repo_path, max_count)])

\* ------------------------------------------------------------------ git_create_branch

\* the existence check left out
BranchExistsNever(branch_name) == FALSE

\* `branch_name in repo.heads`
BranchExists(branch_name) == branch_name \in DOMAIN heads

\* names `git branch` refuses to create
InvalidBranchNames == {"HEAD"}

git_create_branch(p, repo_path, branch_name, base_branch) ==
  LET v == validate_repo(repo_path)
      args == <<repo_path, branch_name, base_branch>>
      given == base_branch \notin {NoBase, ""}     \* `if base_branch`
      base == IF given THEN base_branch ELSE active
  IN
  IF v # "ok"
  THEN Reply(p, "git_create_branch", Returned("Error creating branch:", <<v>>))
  ELSE IF BranchExists(branch_name)
  THEN Reply(p, "git_create_branch", Returned("Branch already exists", <<branch_name>>))
  ELSE IF given /\ base \notin DOMAIN heads        \* repo.refs[base_branch]
  THEN Reply(p, "git_create_branch", Returned("Error creating branch:", <<"IndexError">>))
  ELSE IF base \notin DOMAIN heads \/ branch_name \in InvalidBranchNames
          \/ branch_name \in DOMAIN heads          \* create_head fails
  THEN Reply(p, "git_create_branch", Returned("Error creating branch:", <<"GitCommandError">>))
  ELSE /\ heads' = (branch_name :> heads[base]) @@ heads
       /\ Answer(p, "git_create_branch", Returned("Created branch", <<branch_name, base>>))
       /\ UNCHANGED <<fs, commits, active, index, environ>>

\* ------------------------------------------------------------------ git_checkout

\* the existence check left out
BranchMissingNever(branch_name) == FALSE

\* `branch_name not in repo.heads and branch_name != "HEAD"`
BranchMissing(branch_name) ==
  branch_name \notin DOMAIN heads /\ branch_name # "HEAD"

\* repo.git.checkout(branch_name) went through
Switched(p, branch_name) ==
  /\ active' = IF branch_name = "HEAD" THEN active ELSE branch_name
  /\ Answer(p, "git_checkout", Returned("Switched to branch", <<branch_name>>))
  /\ UNCHANGED <<fs, commits, heads, index, environ>>

CheckoutFailed(p) ==
  Reply(p, "git_checkout", Returned("Error checking out branch:", <<"GitCommandError">>))

git_checkout(p, repo_path, branch_name) ==
  LET v == validate_repo(repo_path) IN
  IF v # "ok"
  THEN Reply(p, "git_checkout", Returned("Error checking out branch:", <<v>>))
  ELSE IF BranchMissing(branch_name)
  THEN Reply(p, "git_checkout", Returned("Error: Branch does not exist", <<branch_name>>))
  ELSE IF branch_name \notin DOMAIN heads          \* "HEAD", or the check let it through
  THEN IF branch_name = "HEAD" /\ HasHead
       THEN Switched(p, branch_name)
       ELSE CheckoutFailed(p)
  ELSE IF index = {} \/ heads[branch_name] = HeadCommit
  THEN Switched(p, branch_name)
  \* staged changes and a different tree: git carries the changes over or
  \* refuses, depending on the file contents
  ELSE \/ Switched(p, branch_name)
       \/ CheckoutFailed(p)

\* ------------------------------------------------------------------ git_commit

\* f"MCP Agent ({agent_name}) on Behalf Of {user_name}"
FullName(agent_name, user_name) ==
  <<"MCP Agent (", agent_name, ") on Behalf Of ", user_name>>

MessageError == <<"Commit message must start with '[agent]'.">>

\* the tag check left out
MessageOkAny(message) == TRUE

\* `message.startswith("[agent]")`
MessageOk(message) == StartsWith(message, Tag)

\* `except Exception as e: return f"Error committing changes: {str(e)}"`
HandleException(text) == Returned("Error committing changes:", text)

\* `except subprocess.CalledProcessError as e: return f"Commit failed: {e.stderr}"`
HandleCalledProcessError(e) == Returned("Commit failed:", e.stderr)

\* `env = os.environ`: no copy, every invocation writes the one shared dict
EnvRefShared(p) == OsEnviron

\* the dict object `env` of invocation p names: os.environ.copy() is a new object
EnvRef(p) == p

\* the committer assignments left out
WithAuthorOnly(from, name, email) ==
  [v \in IdentVars |->
     IF v = "GIT_AUTHOR_NAME" THEN name
     ELSE IF v = "GIT_AUTHOR_EMAIL" THEN email
     ELSE from[v]]

\* the four assignments env[...] = ... on a dict holding `from`
WithIdentity(from, name, email) ==
  [v \in IdentVars |->
     IF v \in {"GIT_AUTHOR_NAME", "GIT_COMMITTER_NAME"} THEN name
     ELSE IF v \in {"GIT_AUTHOR_EMAIL", "GIT_COMMITTER_EMAIL"} THEN email
     ELSE from[v]]

\* the argument vector of the commit subprocess
CommitArgv(repo_path, message) ==
  <<<<"git">>, <<"-C">>, <<repo_path>>, <<"commit">>, <<"-m">>, message>>

\* git's own identity resolution: the environment wins, else the configuration
ConfigIdent == [name |-> <<"configured">>, email |-> <<"configured@host">>]
Ident(env, nameVar, emailVar) ==
  [name |-> IF env[nameVar] = Unset THEN ConfigIdent.name ELSE env[nameVar],
   email |-> IF env[emailVar] = Unset THEN ConfigIdent.email ELSE env[emailVar]]

\* what `git commit -m message` run under env prints and returns
CommitProc(env, message) ==
  IF index = {}
  THEN [returncode |-> 1,
        stdout |-> <<"On branch ", active, "\n", "nothing to commit, working tree clean", "\n">>,
        stderr |-> <<>>]
  ELSE [returncode |-> 0, stdout |-> <<"[", active, " ">> \o message, stderr |-> <<>>]

\* the commit object `git commit` writes
NewCommit(env, message, by) ==
  [parent |-> HeadCommit,
   author |-> Ident(env, "GIT_AUTHOR_NAME", "GIT_AUTHOR_EMAIL"),
   committer |-> Ident(env, "GIT_COMMITTER_NAME", "GIT_COMMITTER_EMAIL"),
   message |-> message,
   by |-> by]

\* entry of git_commit_direct up to the commit subprocess: validation, the
\* derived identity and the environment of the subprocess
CommitCall(p, repo_path, message, req) ==
  LET v == validate_repo(repo_path)
      started == [Idle EXCEPT !.op = "git_commit", !.repo_path = repo_path, !.message = message, !.req = req]
      agent_email == <<req.email>>
      agent_full_name == FullName(req.agent, req.user)
      ref == EnvRef(p)
  IN
  /\ call[p].pc = "idle"
  /\ IF v # "ok"
     THEN /\ call' = [call EXCEPT ![p] =
                        [started EXCEPT !.pc = "done", !.result = HandleException(<<v>>)]]
          /\ UNCHANGED environ
     ELSE IF ~MessageOk(message)
     THEN /\ call' = [call EXCEPT ![p] =
                        [started EXCEPT !.pc = "done",
                                        !.result = HandleException(MessageError)]]
          /\ UNCHANGED environ
     ELSE /\ call' = [call EXCEPT ![p] =
                        [started EXCEPT !.pc = "commit",
                                        !.agent_full_name = agent_full_name]]
          /\ environ' = [environ EXCEPT ![ref] =
                           WithIdentity(environ[OsEnviron], agent_full_name, agent_email)]
  /\ UNCHANGED <<fs, commits, heads, active, index>>

\* subprocess.run(["git", "-C", repo_path, "commit", "-m", message], env=env, check=True)
CommitRun(p) ==
  LET c == call[p]
      env == environ[EnvRef(p)]
      argv == CommitArgv(c.repo_path, c.message)
      proc == CommitProc(env, c.message)
      ran == [c EXCEPT !.argv = argv, !.proc = proc, !.attempts = c.attempts + 1]
  IN
  /\ c.pc = "commit"
  /\ IF proc.returncode = 0
     THEN /\ commits' = Append(commits, NewCommit(env, c.message, c.req))
          /\ heads' = (active :> (Len(commits) + 1)) @@ heads
          /\ index' = {}
          /\ call' = [call EXCEPT ![p] =
                        [ran EXCEPT !.pc = "revparse", !.created = Len(commits) + 1]]
     ELSE /\ call' = [call EXCEPT ![p] =
                        [ran EXCEPT !.pc = "done",
                                    !.result = HandleCalledProcessError(proc)]]
          /\ UNCHANGED <<commits, heads, index>>
  /\ UNCHANGED <<fs, active, environ>>

\* what `git rev-parse HEAD` prints and returns (stderr is not captured)
RevParseProc ==
  IF HasHead
  THEN [returncode |-> 0, stdout |-> hexsha(HeadCommit) \o <<"\n">>, stderr |-> <<"None">>]
  ELSE [returncode |-> 128, stdout |-> <<>>, stderr |-> <<"None">>]

\* subprocess.run(["git", "-C", repo_path, "rev-parse", "HEAD"], check=True) and the return
CommitRevParse(p) ==
  LET c == call[p]
      hash_result == RevParseProc
      commit_hash == strip(hash_result.stdout)
  IN
  /\ c.pc = "revparse"
  /\ call' = [call EXCEPT ![p] =
       [c EXCEPT !.pc = "done",
                 !.result =
                   IF hash_result.returncode = 0
                   THEN Returned("Changes committed successfully with hash",
                                 <<commit_hash, c.agent_full_name>>)
                   ELSE HandleCalledProcessError(hash_result)]]
  /\ UNCHANGED <<fs, commits, heads, active, index, environ>>

\* the caller takes the response; the invocation's locals are dropped
Return(p) ==
  /\ call[p].pc = "done"
  /\ call' = [call EXCEPT ![p] = Idle]
  /\ environ' = [i \in DOMAIN environ |->
                   IF i = EnvRef(p) /\ i # OsEnviron /\ call[p].op = "git_commit"
                   THEN NoEnv ELSE environ[i]]
  /\ UNCHANGED <<fs, commits, heads, active, index>>

\* ------------------------------------------------------------------ Next

BaseInputs == {NoBase, ""} \cup BranchNames \cup {"nope"}
CreateInputs == BranchNames \cup {"HEAD"}
CheckoutInputs == BranchNames \cup {"HEAD", "nope"}

\* staging is what makes a further commit possible: the bound on the store
MayStage(files) == Range(files) \cap Files = {} \/ Len(commits) < MaxCommits

\* one request at a time: a request starts when no other is in flight
Quiet == \A q \in Procs : call[q].pc = "idle"

Next ==
  \/ \E p \in Procs : Quiet /\ git_init(p, RepoPath)
  \/ \E p \in Procs, path \in Paths, files \in AddInputs :
       Quiet /\ MayStage(files) /\ git_add(p, path, files)
  \/ \E p \in Procs, path \in Paths : Quiet /\ git_reset(p, path)
  \/ \E p \in Procs, path \in Paths, n \in 1..MaxLogCount : Quiet /\ git_log(p, path, n)
  \/ \E p \in Procs, path \in Paths, b \in CreateInputs, base \in BaseInputs :
       Quiet /\ git_create_branch(p, path, b, base)
  \/ \E p \in Procs, path \in Paths, b \in CheckoutInputs :
       Quiet /\ git_checkout(p, path, b)
  \/ \E p \in Procs, path \in Paths, m \in Messages, req \in Requests :
       Quiet /\ CommitCall(p, path, m, req)
  \/ \E p \in Procs : CommitRun(p)
  \/ \E p \in Procs : CommitRevParse(p)
  \/ \E p \in Procs : Return(p)

Spec == Init /\ [][Next]_vars

\* Callers that do not wait for one another: requests interleave, and the two
\* subprocess runs of a commit are separate steps
NextConcurrent ==
  \/ \E p \in Procs : git_init(p, RepoPath)
  \/ \E p \in Procs : MayStage(<<"a.txt">>) /\ git_add(p, RepoPath, <<"a.txt">>)
  \/ \E p \in Procs : git_create_branch(p, RepoPath, "dev", NoBase)
  \/ \E p \in Procs, b \in BranchNames : git_checkout(p, RepoPath, b)
  \/ \E p \in Procs, m \in Messages, req \in Requests : CommitCall(p, RepoPath, m, req)
  \/ \E p \in Procs : CommitRun(p)
  \/ \E p \in Procs : CommitRevParse(p)
  \/ \E p \in Procs : Return(p)

SpecConcurrent == Init /\ [][NextConcurrent]_vars

\* ------------------------------------------------------------------ properties

Success == "Changes committed successfully with hash"
Committing(p) == call[p].op = "git_commit"
Finished(p) == call[p].pc = "done"
Valid(repo_path) == validate_repo(repo_path) = "ok"

\* the identity the arguments of a commit request stand for
Synthetic(req) == [name |-> FullName(req.agent, req.user), email |-> <<req.email>>]

\* commits reachable from commit id along the parents
RECURSIVE Depth(_)
Depth(id) == IF id = 0 THEN 0 ELSE 1 + Depth(commits[id].parent)

Min(a, b) == IF a < b THEN a ELSE b

\* C1: on a valid repository, a commit whose message does not start with
\* "[agent]" ends in a raised validation error, not in a returned string.
C1_TagViolationRaised ==
  \A p \in Procs :
    (Committing(p) /\ Finished(p) /\ Valid(call[p].repo_path)
       /\ ~StartsWith(call[p].message, Tag))
    => call[p].result.kind = "raised"

\* C2: a commit whose message does not start with "[agent]" ends at once in a
\* failure, never runs the backend commit and leaves the commits, the
\* branches, HEAD and the staged index as they were; no commit in the store
\* carries an untagged message.
C2_RejectedBeforeBackend ==
  /\ [][\A p \in Procs, path \in Paths, m \in Messages, req \in Requests :
          (CommitCall(p, path, m, req) /\ ~StartsWith(m, Tag))
          => /\ repo' = repo
             /\ call'[p].pc = "done"
             /\ call'[p].attempts = 0
             /\ call'[p].result.kind # "none"
             /\ call'[p].result.prefix # Success]_vars
  /\ [](\A p \in Procs :
          (Committing(p) /\ ~StartsWith(call[p].message, Tag))
          => call[p].attempts = 0 /\ call[p].created = 0)
  /\ [](\A i \in 1..Len(commits) : StartsWith(commits[i].message, Tag))

C2_Witness ==
  \E p \in Procs :
    /\ Committing(p) /\ Finished(p)
    /\ ~StartsWith(call[p].message, Tag)
    /\ call[p].result.detail = MessageError
    /\ index # {} /\ HasHead

\* C3: a tagged commit on a valid repository with staged changes is accepted,
\* its backend run appends exactly one commit on top of HEAD whose author and
\* committer are both the identity derived from agent_name, user_name and
\* user_email, whatever os.environ holds, and the call returns the success
\* confirmation.
C3_CommitAdvancesHead ==
  /\ [][\A p \in Procs, path \in Paths, m \in Messages, req \in Requests :
          (CommitCall(p, path, m, req) /\ StartsWith(m, Tag) /\ Valid(path))
          => call'[p].pc = "commit"]_vars
  /\ [][\A p \in Procs :
          (CommitRun(p) /\ index # {})
          => LET n == Len(commits) + 1 IN
             /\ Len(commits') = n
             /\ SubSeq(commits', 1, n - 1) = commits
             /\ HeadCommit' = n
             /\ active' = active
             /\ \A b \in DOMAIN heads \ {active} : heads'[b] = heads[b]
             /\ commits'[n].parent = HeadCommit
             /\ commits'[n].author = Synthetic(call[p].req)
             /\ commits'[n].committer = commits'[n].author
             /\ call'[p].pc = "revparse"
             /\ call'[p].created = n]_vars
  /\ [](\A p \in Procs :
          (Committing(p) /\ Finished(p) /\ call[p].created # 0)
          => call[p].result.kind = "returned" /\ call[p].result.prefix = Success)

C3_Witness ==
  \E p \in Procs :
    /\ Committing(p) /\ Finished(p) /\ call[p].created # 0
    /\ call[p].result.prefix = Success
    /\ Depth(HeadCommit) = 2
    /\ environ[OsEnviron]["GIT_COMMITTER_NAME"] # Unset
    /\ commits[call[p].created].committer = Synthetic(call[p].req)

\* every text the backend wrote when it failed
Diagnostic(proc) == proc.stdout \o proc.stderr

\* C4: a tagged commit that the backend refuses returns "Commit failed:" with
\* the backend's diagnostic text, after one attempt and without a new commit.
C4_RefusalCarriesDiagnostic ==
  \A p \in Procs :
    (Committing(p) /\ Finished(p) /\ call[p].attempts > 0 /\ call[p].proc.returncode # 0)
    => /\ call[p].result = Returned("Commit failed:", Diagnostic(call[p].proc))
       /\ call[p].attempts = 1
       /\ call[p].created = 0

C6_LogLength ==
  [][\A p \in Procs, path \in Paths, n \in 1..MaxLogCount :
       (git_log(p, path, n) /\ Valid(path))
       => LET entries == call'[p].result.detail
              ids == iter_commits(HeadCommit, n)
          IN /\ Len(entries) = Min(Depth(HeadCommit), n)
             /\ \A i \in 1..Len(entries) : entries[i].Commit = hexsha(ids[i])
             /\ Len(entries) > 0 => ids[1] = HeadCommit
             /\ \A i \in 1..(Len(entries) - 1) : commits[ids[i]].parent = ids[i + 1]]_vars

\* C7: on a valid repository, create_branch of an existing branch name returns
\* the already-exists outcome for every base_branch and leaves the branches,
\* their commits and the active branch as they were, so that the call can be
\* repeated with the same effect.
C7_CreateExistingBranch ==
  [][\A p \in Procs, path \in Paths, b \in CreateInputs, base \in BaseInputs :
       (git_create_branch(p, path, b, base) /\ Valid(path) /\ b \in DOMAIN heads)
       => /\ call'[p].result = Returned("Branch already exists", <<b>>)
          /\ heads' = heads
          /\ active' = active
          /\ repo' = repo
          /\ fs' = fs]_vars

C7_Witness ==
  \E p \in Procs :
    /\ call[p].op = "git_create_branch" /\ Finished(p)
    /\ call[p].result = Returned("Branch already exists", <<"dev">>)
    /\ DOMAIN heads = BranchNames
    /\ heads["dev"] # heads["master"]

\* C8: every backend commit run carries "-S" besides "-m" and the message.
C8_SigningFlag ==
  \A p \in Procs :
    call[p].attempts > 0
    => /\ <<"-S">> \in Range(call[p].argv)
       /\ <<"-m">> \in Range(call[p].argv)
       /\ call[p].message \in Range(call[p].argv)

\* C9: no step changes os.environ, and under every interleaving of commit
\* invocations each commit in the store has, as author and as committer, the
\* identity of the invocation that wrote it.
C9_IdentityScoped ==
  /\ [][environ'[OsEnviron] = environ[OsEnviron]]_vars
  /\ [](\A i \in 1..Len(commits) :
          /\ commits[i].author = Synthetic(commits[i].by)
          /\ commits[i].committer = Synthetic(commits[i].by))

C9_Witness ==
  \E p, q \in Procs :
    /\ Committing(p) /\ Committing(q)
    /\ call[p].req # call[q].req
    /\ call[p].pc = "revparse" /\ call[q].pc = "revparse"
    /\ call[q].created < call[p].created
    /\ commits[call[p].created].by = call[p].req
    /\ commits[call[q].created].by = call[q].req
    /\ environ[OsEnviron]["GIT_AUTHOR_NAME"] # Unset

\* C10: a success confirmation names the commit this invocation wrote, and a
\* "Commit failed:" outcome means this invocation wrote none.
C10_HashIsOwnCommit ==
  \A p \in Procs :
    (Committing(p) /\ Finished(p))
    => /\ call[p].result.prefix = Success
            => call[p].created # 0 /\ call[p].result.detail[1] = hexsha(call[p].created)
       /\ call[p].result.prefix = "Commit failed:" => call[p].created = 0

====
